---- MODULE Spec2Model ----
(***************************************************************************)
(* cortex::matrix<_Tp> (src/src/matrix.hpp): the storage and lifecycle of  *)
(* the container, as a state machine over two matrix objects and the free  *)
(* store their buffers live in.                                            *)
(*                                                                         *)
(* A buffer is a sequence of slots.  A slot either holds a constructed     *)
(* element (live) or is raw storage.  A live element has a determinate     *)
(* value or an indeterminate one (default-initialised, or copied from raw  *)
(* storage); a read of an indeterminate value may compare either way.      *)
(* Buffers no matrix points to any more are counted in `leaked`.           *)
(***************************************************************************)
EXTENDS Integers, Sequences, FiniteSets, TLC

\* ---------------------------------------------------------------- bounds
MaxCells == 2
MaxBuf == 3
MaxLeak == 1
MaxListRows == 3
MaxListCols == 2

\* ------------------------------------------------------------- constants
NULL == 0
RowStep == 2

Objs == {"a", "b"}
Values == {1}
BufIds == 1..MaxBuf

VARIABLES m, heap, leaked, last

vars == <<m, heap, leaked, last>>

Max(x, y) == IF x >= y THEN x ELSE y
Min(x, y) == IF x <= y THEN x ELSE y

\* ------------------------------------------------------------ slots
DeadSlot == [live |-> FALSE, det |-> FALSE, val |-> 0]
IndetSlot == [live |-> TRUE, det |-> FALSE, val |-> 0]
LiveSlot(v) == [live |-> TRUE, det |-> TRUE, val |-> v]

\* What a copy or move construction from a slot yields: the value read; a
\* read of raw storage yields an indeterminate value.
\* An element that does not compare equal to itself (a floating-point NaN);
\* it is none of the numbers the model computes with.
NaN == 1000

CopyOf(s) == IF s.live THEN s ELSE IndetSlot

\* ------------------------------------------------------------ objects
NoMatrix ==
    [alive |-> FALSE, rows |-> 0, columns |-> 0, size |-> 0, capacity |-> 0, data |-> NULL]

\* rows * cols != 0 ? rows * cols : std::max(rows, cols)
SizeOf(r, c) == IF r * c # 0 THEN r * c ELSE Max(r, c)

\* The dimensions tried with the constructors: every pair of nonzero
\* dimensions of at most MaxCells cells, and of the degenerate ones 0 x 0 and
\* 0 x MaxCells.
Dims ==
    {d \in (0..MaxCells) \X (0..MaxCells) :
        /\ SizeOf(d[1], d[2]) <= MaxCells
        /\ d[1] * d[2] = 0 => d \in {<<0, 0>>, <<0, MaxCells>>}}

\* reserve is tried with one cell more than any constructor, so that a full
\* matrix can grow; the largest shape is tried as one row
ReserveDims ==
    {d \in (0..(MaxCells + 1)) \X (0..(MaxCells + 1)) :
        /\ SizeOf(d[1], d[2]) <= MaxCells + 1
        /\ d[1] * d[2] = 0 => d = <<0, MaxCells>>
        /\ d[1] > MaxCells => d[2] = 0}

\* dimensions(): std::tie(m_columns, m_rows)
dimensions(x) == <<x.columns, x.rows>>

\* ------------------------------------------------------------ free store
\* A world is the part of the state an operation transforms: the objects,
\* the buffers, and the faults the operation committed on the way.
World == [m |-> m, heap |-> heap, flags |-> {}]

Allocated(h) == {b \in DOMAIN h : h[b] # <<>>}

HasRoom(h) == \E b \in BufIds : h[b] = <<>>

\* _M_allocate: null for a request of zero elements, else fresh raw storage
FreshId(h) == CHOOSE b \in BufIds : h[b] = <<>> /\ \A c \in BufIds : h[c] = <<>> => b <= c

_M_allocate(h, n) == IF n # 0 THEN FreshId(h) ELSE NULL

RawBuffer(h, p, n) == IF p = NULL THEN h ELSE [h EXCEPT ![p] = [i \in 1..n |-> DeadSlot]]

\* *(p + i - 1) read as a value; outside the buffer, and in raw storage, the
\* value is indeterminate
ReadSlot(h, p, i) == IF p # NULL /\ i >= 1 /\ i <= Len(h[p]) THEN h[p][i] ELSE DeadSlot

\* std::destroy_n(p, n)
DestroyN(w, p, n) ==
    LET inside == IF p = NULL THEN 0 ELSE Min(n, Len(w.heap[p]))
        bad == (n > inside) \/ (\E i \in 1..inside : ~w.heap[p][i].live)
    IN [w EXCEPT !.heap = IF p = NULL THEN @
                          ELSE [@ EXCEPT ![p] = [i \in 1..Len(@) |-> IF i <= n THEN DeadSlot ELSE @[i]]],
                 !.flags = IF bad THEN @ \cup {"destroy_not_live"} ELSE @]

\* _M_deallocate(p, n): ::operator delete(p, n * sizeof(_Tp))
_M_deallocate(w, p, n) ==
    IF p = NULL THEN w
    ELSE [w EXCEPT !.heap = [@ EXCEPT ![p] = <<>>],
                   !.flags = @ \cup (IF \E i \in 1..Len(w.heap[p]) : w.heap[p][i].live
                                     THEN {"lost_live"} ELSE {})
                               \cup (IF n # Len(w.heap[p]) THEN {"released_wrong_size"} ELSE {})
                               \cup (IF w.heap[p] = <<>> THEN {"released_twice"} ELSE {})]

\* Buffers no object points to: they can never be released.
Unreachable(w) == {b \in Allocated(w.heap) : \A o \in DOMAIN w.m : w.m[o].data # b}

Collect(w) ==
    LET lost == Unreachable(w)
    IN [m |-> w.m,
        heap |-> [b \in DOMAIN w.heap |-> IF b \in lost THEN <<>> ELSE w.heap[b]],
        lost |-> Cardinality(lost),
        flags |-> w.flags \cup (IF \E b \in lost : \E i \in 1..Len(w.heap[b]) : w.heap[b][i].live
                                THEN {"lost_live"} ELSE {})]

\* ------------------------------------------------------------ constructors
\* matrix()
DefaultCtorW(w, o) ==
    [w EXCEPT !.m[o] = [NoMatrix EXCEPT !.alive = TRUE]]

\* matrix(rows, cols) and matrix(rows, cols, value): `fill` is the slot every
\* element is constructed as
SizeCtorW(w, o, r, c, fill) ==
    LET n == SizeOf(r, c)
        p == _M_allocate(w.heap, n)
    IN [w EXCEPT !.m[o] = [alive |-> TRUE, rows |-> r, columns |-> c, size |-> n,
                            capacity |-> n, data |-> p],
                 !.heap = IF p = NULL THEN @ ELSE [@ EXCEPT ![p] = [i \in 1..n |-> fill]]]

\* a copy constructor that takes the source's buffer instead of copying it
CopyCtorWShallow(w, o, s) ==
    [w EXCEPT !.m[o] = [w.m[s] EXCEPT !.alive = TRUE, !.capacity = w.m[s].size]]

\* matrix(const matrix&)
CopyCtorW(w, o, s) ==
    LET src == w.m[s]
        n == src.size
        p == _M_allocate(w.heap, n)
    IN [w EXCEPT !.m[o] = [alive |-> TRUE, rows |-> src.rows, columns |-> src.columns,
                            size |-> n, capacity |-> n, data |-> p],
                 !.heap = IF p = NULL THEN @
                          ELSE [@ EXCEPT ![p] = [i \in 1..n |-> CopyOf(ReadSlot(w.heap, src.data, i))]]]

\* matrix(matrix&&)
MoveCtorW(w, o, s) ==
    LET src == w.m[s]
    IN [w EXCEPT !.m = [@ EXCEPT ![o] = [src EXCEPT !.alive = TRUE],
                                 ![s] = [src EXCEPT !.data = NULL, !.columns = 0,
                                                    !.rows = 0, !.size = 0]]]


\* ------------------------------------------------------------ nested lists
\* The nested lists tried.  A shape is the number of rows n, the length c of
\* the first row, and at most one row k >= 2 of another length d (k = 0: none),
\* one element longer than the first; an empty first row is tried alone; every
\* value is 1.
Shapes ==
    {sh \in [n : 1..MaxCells, c : 0..MaxCells, k : 0..MaxCells, d : 0..(MaxCells + 1)] :
        /\ SizeOf(sh.n, sh.c) <= MaxCells
        /\ sh.c = 0 => sh.n = 1
        /\ sh.k # 1 /\ sh.k <= sh.n
        /\ IF sh.k = 0 THEN sh.d = 0 ELSE sh.d = sh.c + 1}

ListOf(sh) ==
    [k \in 1..sh.n |-> [j \in 1..(IF k = sh.k THEN sh.d ELSE sh.c) |-> 1]]

Lists == {ListOf(sh) : sh \in Shapes}

\* Where a write past the end of a buffer can land: in no buffer of the
\* model, or in the buffer that follows it in memory.
Neighbours(h) == {NULL} \cup Allocated(h)

\* Does the row loop write past the end of a buffer of SizeOf(rows, columns)
\* elements before it throws or ends?
PastEnd(list) ==
    \E k \in 1..Len(list) :
        /\ \A i \in 1..k : Len(list[i]) = Len(list[1])
        /\ Len(list[1]) > 0
        /\ RowStep * (k - 1) + Len(list[1]) > SizeOf(Len(list), Len(list[1]))

NextTo(h, list) == IF PastEnd(list) THEN Neighbours(h) ELSE {NULL}

\* construction of one element at p + idx - 1
ConstructAt(w, p, idx, slot, next) ==
    IF p # NULL /\ idx <= Len(w.heap[p])
    THEN [w EXCEPT !.heap[p][idx] = slot,
                   !.flags = IF w.heap[p][idx].live THEN @ \cup {"lost_live"} ELSE @]
    ELSE LET j == idx - (IF p = NULL THEN 0 ELSE Len(w.heap[p]))
             hit == next # NULL /\ next # p /\ j <= Len(w.heap[next])
         IN [w EXCEPT !.heap = IF hit /\ @[next][j].live THEN [@ EXCEPT ![next][j] = slot] ELSE @,
                      !.flags = @ \cup {"write_past_end"}]

\* std::uninitialized_move_n(row->begin(), n, p + offset), from element j on
RECURSIVE MoveRowN(_, _, _, _, _, _, _)
MoveRowN(w, row, n, p, offset, j, next) ==
    IF j > n THEN w
    ELSE MoveRowN(ConstructAt(w, p, offset + j, LiveSlot(row[j]), next),
                  row, n, p, offset, j + 1, next)

\* a row loop that checks the length of a row after it has placed the row
RECURSIVE InitRowsLate(_, _, _, _, _, _, _)
InitRowsLate(w, list, cols, p, offset, k, next) ==
    IF k > Len(list) THEN [w |-> w, thrown |-> "none"]
    ELSE LET w1 == MoveRowN(w, list[k], Min(cols, Len(list[k])), p, offset, 1, next)
         IN IF Len(list[k]) # cols THEN [w |-> w1, thrown |-> "invalid_argument"]
            ELSE InitRowsLate(w1, list, cols, p, offset + RowStep, k + 1, next)

\* the row loop of the initializer-list constructor and assignment, from row k
RECURSIVE InitRows(_, _, _, _, _, _, _)
InitRows(w, list, cols, p, offset, k, next) ==
    IF k > Len(list) THEN [w |-> w, thrown |-> "none"]
    ELSE IF Len(list[k]) # cols THEN [w |-> w, thrown |-> "invalid_argument"]
    ELSE InitRows(MoveRowN(w, list[k], cols, p, offset, 1, next),
                  list, cols, p, offset + RowStep, k + 1, next)

\* fields and allocation shared by the initializer-list constructor and assignment
InitListFields(w, o, list) ==
    LET r == Len(list)
        c == Len(list[1])
        n == SizeOf(r, c)
        p == _M_allocate(w.heap, n)
    IN [w EXCEPT !.m[o] = [alive |-> TRUE, rows |-> r, columns |-> c, size |-> n,
                            capacity |-> n, data |-> p],
                 !.heap = RawBuffer(@, p, n)]

\* matrix(std::initializer_list<std::initializer_list<value_type>>): an
\* exception leaves no object behind
InitListCtorW(w, o, list, next) ==
    LET w1 == InitListFields(w, o, list)
        res == InitRows(w1, list, w1.m[o].columns, w1.m[o].data, 0, 1, next)
    IN IF res.thrown = "none" THEN res
       ELSE [w |-> [res.w EXCEPT !.m[o] = NoMatrix], thrown |-> res.thrown]

\* operator=(std::initializer_list<std::initializer_list<value_type>>)
InitListAssignW(w, o, list, next) ==
    LET w1 == InitListFields(w, o, list)
    IN InitRows(w1, list, w1.m[o].columns, w1.m[o].data, 0, 1, next)

\* ------------------------------------------------------------ equality
\* operator==(lhs, rhs) as the set of results it can give: std::equal over
\* [lhs.begin(), lhs.end()) against rhs.begin(); a comparison that reads an
\* indeterminate value can give either result, two reads of one location agree;
\* a NaN differs from every element, itself included.
EqOutcomes(h, l, r) ==
    IF dimensions(l) # dimensions(r) THEN {FALSE}
    ELSE LET x(i) == ReadSlot(h, l.data, i)
             y(i) == ReadSlot(h, r.data, i)
             same == l.data = r.data
             known(i) == x(i).live /\ x(i).det /\ y(i).live /\ y(i).det
             differ(i) == /\ known(i)
                          /\ \/ x(i).val = NaN
                             \/ y(i).val = NaN
                             \/ ~same /\ x(i).val # y(i).val
             either(i) == ~same /\ ~known(i)
             idx == 1..l.size
         IN (IF \A i \in idx : ~differ(i) THEN {TRUE} ELSE {})
            \cup (IF \E i \in idx : differ(i) \/ either(i) THEN {FALSE} ELSE {})

\* operator!=(lhs, rhs): !(lhs == rhs)
NeqOutcomes(w, a, b) == {~e : e \in EqOutcomes(w.heap, w.m[a], w.m[b])}

\* ------------------------------------------------------------ ordering
\* a comparison that looks at one pair of elements only
LexCompareFirst(h, l, r, i) ==
    IF i > l.size \/ i > r.size THEN {i > l.size /\ i <= r.size}
    ELSE LET x == ReadSlot(h, l.data, i)
             y == ReadSlot(h, r.data, i)
         IN IF x.live /\ x.det /\ y.live /\ y.det THEN {x.val < y.val} ELSE {TRUE, FALSE}

\* std::lexicographical_compare(lhs.begin(), lhs.end(), rhs.begin(), rhs.end())
\* from element i on, as the set of results it can give: the first pair of
\* elements of which one is less than the other decides, and when a range
\* ends the result is whether the left one ended and the right one did not.
\* A comparison that reads an indeterminate value can give either result,
\* two reads of one location agree, and a NaN is not less than any element.
RECURSIVE LexCompare(_, _, _, _)
LexCompare(h, l, r, i) ==
    IF i > l.size \/ i > r.size THEN {i > l.size /\ i <= r.size}
    ELSE LET x == ReadSlot(h, l.data, i)
             y == ReadSlot(h, r.data, i)
             known == x.live /\ x.det /\ y.live /\ y.det
             same == l.data = r.data \/ (known /\ (x.val = NaN \/ y.val = NaN))
         IN IF same THEN LexCompare(h, l, r, i + 1)
            ELSE IF known
            THEN IF x.val < y.val THEN {TRUE}
                 ELSE IF y.val < x.val THEN {FALSE}
                 ELSE LexCompare(h, l, r, i + 1)
            ELSE {TRUE, FALSE} \cup LexCompare(h, l, r, i + 1)

\* operator<(lhs, rhs)
LtOutcomes(h, l, r) == LexCompare(h, l, r, 1)

\* operator>(lhs, rhs): rhs < lhs
GtOutcomes(h, l, r) == LtOutcomes(h, r, l)

\* operator<=(lhs, rhs): !(rhs < lhs)
LeOutcomes(h, l, r) == {~e : e \in LtOutcomes(h, r, l)}

\* operator>=(lhs, rhs): !(lhs < rhs)
GeOutcomes(h, l, r) == {~e : e \in LtOutcomes(h, l, r)}

\* ------------------------------------------------------------ assignment
\* operator=(const matrix&); neq is the result of *this != other
CopyAssignW(w, o, s, neq) ==
    IF ~neq THEN w
    ELSE LET src == w.m[s]
             n == src.size
             p == _M_allocate(w.heap, n)
             m1 == [w.m EXCEPT ![o] = [@ EXCEPT !.rows = src.rows, !.columns = src.columns,
                                                 !.size = n, !.capacity = n, !.data = p]]
             h1 == RawBuffer(w.heap, p, n)
             from == m1[s].data
         IN [w EXCEPT !.m = m1,
                      !.heap = IF p = NULL THEN h1
                               ELSE [h1 EXCEPT ![p] = [i \in 1..n |-> CopyOf(ReadSlot(h1, from, i))]]]

\* operator=(matrix&&); neq is the result of *this != other
MoveAssignW(w, o, s, neq) ==
    IF ~neq THEN w
    ELSE LET src == w.m[s]
             m1 == [w.m EXCEPT ![o] = [@ EXCEPT !.rows = src.rows, !.columns = src.columns,
                                                 !.size = src.size, !.capacity = src.capacity,
                                                 !.data = src.data]]
         IN [w EXCEPT !.m = [m1 EXCEPT ![s] = [@ EXCEPT !.data = NULL, !.rows = 0,
                                                         !.columns = 0, !.size = 0]]]

\* ------------------------------------------------------------ destructor
\* ~matrix()
DtorW(w, o) ==
    LET x == w.m[o]
        w1 == IF x.data # NULL
              THEN _M_deallocate(DestroyN(w, x.data, x.size), x.data, x.size)
              ELSE w
    IN [w1 EXCEPT !.m[o] = NoMatrix]

\* ------------------------------------------------------------ reserve, clear
\* reserve relocating the elements in reverse order
ReserveWReversed(w, o, r, c) ==
    LET x == w.m[o]
        new_capacity == SizeOf(r, c)
    IN IF new_capacity > x.capacity
       THEN LET new_data == _M_allocate(w.heap, new_capacity)
                h1 == RawBuffer(w.heap, new_data, new_capacity)
                w1 == [w EXCEPT !.heap = [h1 EXCEPT ![new_data] =
                                            [i \in 1..new_capacity |->
                                                IF i <= x.size
                                                THEN CopyOf(ReadSlot(h1, x.data, x.size + 1 - i))
                                                ELSE DeadSlot]]]
                w2 == DestroyN(w1, x.data, x.capacity)
                w3 == _M_deallocate(w2, x.data, x.capacity)
            IN [w3 EXCEPT !.m[o] = [x EXCEPT !.data = new_data, !.capacity = new_capacity,
                                             !.rows = r, !.columns = c]]
       ELSE w

\* reserve(new_rows, new_columns)
ReserveW(w, o, r, c) ==
    LET x == w.m[o]
        new_capacity == SizeOf(r, c)
    IN IF new_capacity > x.capacity
       THEN LET new_data == _M_allocate(w.heap, new_capacity)
                h1 == RawBuffer(w.heap, new_data, new_capacity)
                w1 == [w EXCEPT !.heap = [h1 EXCEPT ![new_data] =
                                            [i \in 1..new_capacity |->
                                                IF i <= x.size THEN CopyOf(ReadSlot(h1, x.data, i))
                                                ELSE DeadSlot]]]
                w2 == DestroyN(w1, x.data, x.capacity)
                w3 == _M_deallocate(w2, x.data, x.capacity)
            IN [w3 EXCEPT !.m[o] = [x EXCEPT !.data = new_data, !.capacity = new_capacity,
                                             !.rows = r, !.columns = c]]
       ELSE w

\* clear()
ClearW(w, o) ==
    LET x == w.m[o]
    IN IF x.size # 0
       THEN [DestroyN(w, x.data, x.size) EXCEPT !.m[o] = [x EXCEPT !.size = 0, !.rows = 0,
                                                                   !.columns = 0]]
       ELSE w

\* ------------------------------------------------------------ swap
WithTmp(w) ==
    [w EXCEPT !.m = [o \in Objs \cup {"tmp"} |-> IF o \in Objs THEN w.m[o] ELSE NoMatrix]]

WithoutTmp(w) == [w EXCEPT !.m = [o \in Objs |-> w.m[o]]]

\* matrix tmp = std::move(other);
SwapStep1(w, o, q) == MoveCtorW(WithTmp(w), "tmp", q)

\* other = std::move(*this);
SwapStep2(w1, o, q, neq1) == MoveAssignW(w1, q, o, neq1)

\* *this = std::move(tmp); and the destruction of tmp at the end of swap
SwapStep3(w2, o, q, neq2) == WithoutTmp(DtorW(MoveAssignW(w2, o, "tmp", neq2), "tmp"))

\* ------------------------------------------------------------ element access
\* a range check that lets the index one past the last row or column through
RangeCheckOffByOne(x, r, c) == IF r > x.rows \/ c > x.columns THEN "out_of_range" ELSE "none"

\* _M_range_check(row, column)
_M_range_check(x, r, c) == IF r >= x.rows \/ c >= x.columns THEN "out_of_range" ELSE "none"

\* the slot at(row, column) refers to: m_data + m_columns * row + column
AtIndex(x, r, c) == x.columns * r + c + 1

\* Does at(row, column) pass the range check and refer past the end of the
\* buffer?
AtPastEnd(h, x, r, c) ==
    /\ _M_range_check(x, r, c) = "none"
    /\ x.data # NULL
    /\ AtIndex(x, r, c) > Len(h[x.data])

AtNextTo(h, x, r, c) == IF AtPastEnd(h, x, r, c) THEN Neighbours(h) ELSE {NULL}

\* at(row, column) = v; a store past the end of the buffer lands in no buffer
\* of the model or in an element of the buffer `next`, a store through a null
\* pointer nowhere
AtStoreW(w, o, r, c, v, next) ==
    LET x == w.m[o]
        idx == AtIndex(x, r, c)
    IN IF _M_range_check(x, r, c) # "none" THEN w
       ELSE IF x.data = NULL THEN [w EXCEPT !.flags = @ \cup {"access_past_end"}]
       ELSE IF idx <= Len(w.heap[x.data])
       THEN IF w.heap[x.data][idx].live
            THEN [w EXCEPT !.heap[x.data][idx] = LiveSlot(v)]
            ELSE [w EXCEPT !.flags = @ \cup {"access_not_live"}]
       ELSE LET j == idx - Len(w.heap[x.data])
                hit == next # NULL /\ next # x.data /\ j <= Len(w.heap[next])
            IN [w EXCEPT !.heap = IF hit /\ @[next][j].live
                                  THEN [@ EXCEPT ![next][j] = LiveSlot(v)] ELSE @,
                         !.flags = @ \cup {"access_past_end"}]

\* ------------------------------------------------------------ state machine
\* Addresses are arbitrary, so after every operation the buffers are renamed:
\* the buffer of a is 1 and the buffer of b is 2.  Name(w, p) is the name the
\* buffer p has afterwards, NULL when p is no longer the buffer of any object.
SlotOf(o) == IF o = "a" THEN 1 ELSE 2

Name(w, p) ==
    IF p = NULL THEN NULL
    ELSE IF w.m["a"].data = p THEN SlotOf("a")
    ELSE IF w.m["b"].data = p THEN SlotOf("b")
    ELSE NULL

Step(op, thrown) == [op |-> op, thrown |-> thrown, flags |-> {}]

\* The state after an operation that leaves the world w; last describes the
\* operation: its name, what it threw, the faults it committed and whether it
\* allocated or released a buffer.
Commit(w0, l) ==
    \E w \in {w0} : \E g \in {Collect(w)} :
    LET before == Allocated(heap)
        after == Allocated(w.heap)
    IN /\ m' = [o \in Objs |-> [g.m[o] EXCEPT !.data = Name(g, @)]]
       /\ heap' = [b \in BufIds |->
                     IF b = SlotOf("a") /\ g.m["a"].data # NULL THEN g.heap[g.m["a"].data]
                     ELSE IF b = SlotOf("b") /\ g.m["b"].data \notin {NULL, g.m["a"].data}
                     THEN g.heap[g.m["b"].data]
                     ELSE <<>>]
       /\ leaked' = leaked + g.lost
       /\ last' = [l EXCEPT !.flags = g.flags
                                \cup (IF after \ before # {} THEN {"allocated"} ELSE {})
                                \cup (IF before \ after # {} THEN {"released"} ELSE {})]

\* (row, column) pairs tried with at()
AtArgs ==
    {d \in (0..MaxCells) \X (0..MaxCells) :
        /\ SizeOf(d[1] + 1, d[2] + 1) <= MaxCells + 1
        /\ d[1] < MaxCells}

Init ==
    /\ m = [o \in Objs |-> NoMatrix]
    /\ heap = [b \in BufIds |-> <<>>]
    /\ leaked = 0
    /\ last = Step("init", "none")

DefaultCtorOn(o) ==
    /\ leaked < MaxLeak
    /\ ~m[o].alive
    /\ Commit(DefaultCtorW(World, o), Step("default", "none"))

SizeCtorOn(o, d) ==
    /\ leaked < MaxLeak
    /\ ~m[o].alive
    /\ HasRoom(heap)
    /\ Commit(SizeCtorW(World, o, d[1], d[2], IndetSlot), Step("size", "none"))

FillCtorOn(o, d, v) ==
    /\ leaked < MaxLeak
    /\ ~m[o].alive
    /\ HasRoom(heap)
    /\ Commit(SizeCtorW(World, o, d[1], d[2], LiveSlot(v)), Step("fill", "none"))

CopyCtorOn(o, s) ==
    /\ leaked < MaxLeak
    /\ ~m[o].alive
    /\ m[s].alive
    /\ HasRoom(heap)
    /\ Commit(CopyCtorW(World, o, s), Step("copy", "none"))

MoveCtorOn(o, s) ==
    /\ leaked < MaxLeak
    /\ ~m[o].alive
    /\ m[s].alive
    /\ Commit(MoveCtorW(World, o, s), Step("move", "none"))

InitListCtorOn(o, list, next) ==
    /\ leaked < MaxLeak
    /\ ~m[o].alive
    /\ HasRoom(heap)
    /\ LET res == InitListCtorW(World, o, list, next)
       IN Commit(res.w, Step("list", res.thrown))

CopyAssignOn(o, s, neq) ==
    /\ leaked < MaxLeak
    /\ m[o].alive
    /\ m[s].alive
    /\ HasRoom(heap)
    /\ neq \in NeqOutcomes(World, o, s)
    /\ Commit(CopyAssignW(World, o, s, neq), Step("copy_assign", "none"))

MoveAssignOn(o, s, neq) ==
    /\ leaked < MaxLeak
    /\ m[o].alive
    /\ m[s].alive
    /\ neq \in NeqOutcomes(World, o, s)
    /\ Commit(MoveAssignW(World, o, s, neq), Step("move_assign", "none"))

InitListAssignOn(o, list, next) ==
    /\ leaked < MaxLeak
    /\ m[o].alive
    /\ HasRoom(heap)
    /\ LET res == InitListAssignW(World, o, list, next)
       IN Commit(res.w, Step("list_assign", res.thrown))

DtorOn(o) ==
    /\ m[o].alive
    /\ Commit(DtorW(World, o), Step("destroy", "none"))

ReserveOn(o, d) ==
    /\ leaked < MaxLeak
    /\ m[o].alive
    /\ HasRoom(heap)
    /\ Commit(ReserveW(World, o, d[1], d[2]), Step("reserve", "none"))

ClearOn(o) ==
    /\ leaked < MaxLeak
    /\ m[o].alive
    /\ Commit(ClearW(World, o), Step("clear", "none"))

SwapOn(o, q, neq1, neq2) ==
    /\ leaked < MaxLeak
    /\ m[o].alive
    /\ m[q].alive
    /\ LET w1 == SwapStep1(World, o, q)
           w2 == SwapStep2(w1, o, q, neq1)
       IN /\ neq1 \in NeqOutcomes(w1, q, o)
          /\ neq2 \in NeqOutcomes(w2, o, "tmp")
          /\ Commit(SwapStep3(w2, o, q, neq2), Step("swap", "none"))

AtStoreOn(o, d, v, next) ==
    /\ leaked < MaxLeak
    /\ m[o].alive
    /\ Commit(AtStoreW(World, o, d[1], d[2], v, next),
              Step("at", _M_range_check(m[o], d[1], d[2])))

DefaultCtor == \E o \in Objs : DefaultCtorOn(o)
SizeCtor == \E o \in Objs, d \in Dims : SizeCtorOn(o, d)
FillCtor == \E o \in Objs, d \in Dims, v \in Values : FillCtorOn(o, d, v)
CopyCtor == \E o \in Objs, s \in Objs : CopyCtorOn(o, s)
MoveCtor == \E o \in Objs, s \in Objs : MoveCtorOn(o, s)
InitListCtor == \E o \in Objs, list \in Lists : \E next \in NextTo(heap, list) : InitListCtorOn(o, list, next)
CopyAssign == \E o \in Objs, s \in Objs, neq \in BOOLEAN : CopyAssignOn(o, s, neq)
MoveAssign == \E o \in Objs, s \in Objs, neq \in BOOLEAN : MoveAssignOn(o, s, neq)
InitListAssign == \E o \in Objs, list \in Lists : \E next \in NextTo(heap, list) : InitListAssignOn(o, list, next)
Dtor == \E o \in Objs : DtorOn(o)
Reserve == \E o \in Objs, d \in ReserveDims : ReserveOn(o, d)
Clear == \E o \in Objs : ClearOn(o)
Swap == \E o \in Objs, q \in Objs, neq1 \in BOOLEAN, neq2 \in BOOLEAN : SwapOn(o, q, neq1, neq2)
AtStore == \E o \in Objs, d \in AtArgs, v \in Values : \E next \in AtNextTo(heap, m[o], d[1], d[2]) : AtStoreOn(o, d, v, next)

Next ==
    \/ DefaultCtor
    \/ SizeCtor
    \/ FillCtor
    \/ CopyCtor
    \/ MoveCtor
    \/ InitListCtor
    \/ CopyAssign
    \/ MoveAssign
    \/ InitListAssign
    \/ Dtor
    \/ Reserve
    \/ Clear
    \/ Swap
    \/ AtStore

Spec == Init /\ [][Next]_vars

\* Nested lists of up to MaxListRows rows whose elements are told apart: the
\* element j of row k is Cell(k, j).  Rows have the length c of the first row,
\* but for at most one row k >= 2 of another length d (k = 0: none).
Cell(k, j) == 10 * k + j

NestedShapes ==
    {sh \in [n : 1..MaxListRows, c : 0..MaxListCols, k : 0..MaxListRows,
             d : 0..(MaxListCols + 1)] :
        /\ sh.k # 1 /\ sh.k <= sh.n
        /\ IF sh.k = 0 THEN sh.d = 0 ELSE sh.d # sh.c}

NestedOf(sh) ==
    [k \in 1..sh.n |-> [j \in 1..(IF k = sh.k THEN sh.d ELSE sh.c) |-> Cell(k, j)]]

NestedLists == {NestedOf(sh) : sh \in NestedShapes}

NestedCtor ==
    \E o \in Objs, list \in NestedLists :
        \E next \in NextTo(heap, list) : InitListCtorOn(o, list, next)

NestedAssign ==
    \E o \in Objs, list \in NestedLists :
        \E next \in NextTo(heap, list) : InitListAssignOn(o, list, next)

ListNext ==
    \/ NestedCtor
    \/ NestedAssign
    \/ Dtor

ListSpec == Init /\ [][ListNext]_vars

\* A matrix of floating-point elements: the operations that compare or copy
\* elements, over matrices filled with a number or with NaN.
FloatValues == Values \cup {NaN}

FloatFillCtor == \E o \in Objs, d \in Dims, v \in FloatValues : FillCtorOn(o, d, v)

FloatNext ==
    \/ FloatFillCtor
    \/ CopyCtor
    \/ CopyAssign
    \/ MoveAssign
    \/ Clear
    \/ Dtor

FloatSpec == Init /\ [][FloatNext]_vars

\* ------------------------------------------------------------ arithmetic
\* Integer elements and scalars tried with the arithmetic operations.
ArithValues == {-7, 0, 2, 7}
Scalars == {0, 2}

Abs(x) == IF x < 0 THEN -x ELSE x

\* a division that rounds toward minus infinity
FloorDiv(x, y) == IF y > 0 THEN x \div y ELSE (-x) \div (-y)

\* x / y on integers: the quotient with the fractional part discarded
TruncDiv(x, y) ==
    IF (x < 0) # (y < 0) THEN -(Abs(x) \div Abs(y)) ELSE Abs(x) \div Abs(y)

\* std::plus, std::minus, std::multiplies, std::divides
Apply(op, x, y) ==
    CASE op = "add" -> x + y
      [] op = "sub" -> x - y
      [] op = "mul" -> x * y
      [] op = "div" -> TruncDiv(x, y)

\* The element an operation on two elements read gives: a read of raw
\* storage or of an indeterminate value, and a division by zero, give an
\* indeterminate element.
ElemOp(op, s, t) ==
    IF s.live /\ s.det /\ t.live /\ t.det /\ ~(op = "div" /\ t.val = 0)
    THEN LiveSlot(Apply(op, s.val, t.val))
    ELSE IndetSlot

InBuffer(h, p, i) == p # NULL /\ i <= Len(h[p])

\* the faults of reading elements 1..n at p
ReadFaults(h, p, n) ==
    (IF \E i \in 1..n : ~InBuffer(h, p, i) THEN {"read_past_end"} ELSE {})
    \cup (IF \E i \in 1..n : InBuffer(h, p, i) /\ ~h[p][i].live
          THEN {"read_not_live"} ELSE {})

WithResult(w) ==
    [w EXCEPT !.m = [o \in Objs \cup {"result"} |-> IF o \in Objs THEN w.m[o] ELSE NoMatrix]]

WithoutResult(w) == [w EXCEPT !.m = [o \in Objs |-> w.m[o]]]

\* std::transform(this->begin(), this->end(), other.begin(), result.begin(), op)
Transform(w, op, o, s) ==
    LET x == w.m[o]
        y == w.m[s]
        r == w.m["result"]
        n == x.size
        elem(i) == ElemOp(op, ReadSlot(w.heap, x.data, i), ReadSlot(w.heap, y.data, i))
        zero == op = "div" /\ \E i \in 1..n : LET t == ReadSlot(w.heap, y.data, i)
                                              IN t.live /\ t.det /\ t.val = 0
        faults == ReadFaults(w.heap, x.data, n) \cup ReadFaults(w.heap, y.data, n)
                  \cup (IF zero THEN {"divide_by_zero"} ELSE {})
                  \cup (IF \E i \in 1..n : ~InBuffer(w.heap, r.data, i)
                        THEN {"write_past_end"} ELSE {})
    IN [w EXCEPT !.heap = IF r.data = NULL THEN @
                          ELSE [@ EXCEPT ![r.data] =
                                  [i \in 1..Len(@) |-> IF i <= n THEN elem(i) ELSE @[i]]],
                 !.flags = @ \cup faults]

\* std::transform(this->begin(), this->end(), result.begin(),
\*                [&](auto& elem) { return elem op scalar; })
TransformScalar(w, op, o, scalar) ==
    LET x == w.m[o]
        r == w.m["result"]
        n == x.size
        elem(i) == ElemOp(op, ReadSlot(w.heap, x.data, i), LiveSlot(scalar))
        faults == ReadFaults(w.heap, x.data, n)
                  \cup (IF \E i \in 1..n : ~InBuffer(w.heap, r.data, i)
                        THEN {"write_past_end"} ELSE {})
    IN [w EXCEPT !.heap = IF r.data = NULL THEN @
                          ELSE [@ EXCEPT ![r.data] =
                                  [i \in 1..Len(@) |-> IF i <= n THEN elem(i) ELSE @[i]]],
                 !.flags = @ \cup faults]

\* What an arithmetic operation gives back: the world it leaves, the exception
\* and its message, and the matrix returned with its elements (the returned
\* temporary is destroyed at the end of the full expression).
Failed(w, what) ==
    [w |-> w, thrown |-> "invalid_argument", what |-> what, result |-> NoMatrix, elems |-> <<>>]

Returned(w) ==
    [w |-> WithoutResult(DtorW(w, "result")), thrown |-> "none", what |-> "",
     result |-> w.m["result"],
     elems |-> IF w.m["result"].data = NULL THEN <<>> ELSE w.heap[w.m["result"].data]]

\* an operation that compares the sizes of the operands, not their dimensions
BinaryWBySize(w, op, o, s) ==
    IF w.m[o].size # w.m[s].size THEN Failed(w, "dimensions do not match")
    ELSE Returned(Transform(SizeCtorW(WithResult(w), "result", w.m[o].rows, w.m[o].columns,
                                      IndetSlot), op, o, s))

\* add, sub, mul, div (const matrix<_ElemT>& other)
BinaryW(w, op, o, s) ==
    IF dimensions(w.m[o]) # dimensions(w.m[s]) THEN Failed(w, "dimensions do not match")
    ELSE Returned(Transform(SizeCtorW(WithResult(w), "result", w.m[o].rows, w.m[o].columns,
                                      IndetSlot), op, o, s))

\* empty()
empty(x) == x.size = 0

\* what the exception of a scalar operation on an empty matrix says
EmptyMessage(op) ==
    IF op = "mul" THEN "scalar multiplication on empty matrix"
    ELSE "scalar division on empty matrix"

\* a scalar operation that looks at the scalar before it looks at the matrix
ScalarWZeroFirst(w, op, o, scalar) ==
    IF op = "div" /\ scalar = 0 THEN Failed(w, "scalar is zero")
    ELSE IF empty(w.m[o]) THEN Failed(w, EmptyMessage(op))
    ELSE Returned(TransformScalar(SizeCtorW(WithResult(w), "result", w.m[o].rows,
                                            w.m[o].columns, IndetSlot), op, o, scalar))

\* mul, div (const _ScalarT& scalar)
ScalarW(w, op, o, scalar) ==
    IF empty(w.m[o]) THEN Failed(w, EmptyMessage(op))
    ELSE IF op = "div" /\ scalar = 0 THEN Failed(w, "scalar is zero")
    ELSE Returned(TransformScalar(SizeCtorW(WithResult(w), "result", w.m[o].rows,
                                            w.m[o].columns, IndetSlot), op, o, scalar))

ArithStep(op, res) ==
    [op |-> op, thrown |-> res.thrown, flags |-> {}, what |-> res.what,
     result |-> res.result, elems |-> res.elems]

BinaryOn(op, o, s) ==
    /\ leaked < MaxLeak
    /\ m[o].alive
    /\ m[s].alive
    /\ LET res == BinaryW(World, op, o, s)
       IN Commit(res.w, ArithStep(op, res))

ScalarOn(op, o, scalar) ==
    /\ leaked < MaxLeak
    /\ m[o].alive
    /\ LET res == ScalarW(World, op, o, scalar)
       IN Commit(res.w, ArithStep(op \o "_scalar", res))

\* The one-row lists tried, of two different elements, next to the matrices
\* filled with one value; reserve is tried with the nonzero dimensions a
\* constructor is tried with.
ArithLists == {<<<<-7, 2>>>>, <<<<7, 0>>>>}

ArithReserveDims == {d \in ReserveDims : d[1] * d[2] # 0 /\ SizeOf(d[1], d[2]) <= MaxCells}

ArithFillCtor == \E o \in Objs, d \in Dims, v \in ArithValues : FillCtorOn(o, d, v)
ArithListCtor == \E o \in Objs, list \in ArithLists : InitListCtorOn(o, list, NULL)
ArithReserve == \E o \in Objs, d \in ArithReserveDims : ReserveOn(o, d)
Add == \E o \in Objs, s \in Objs : BinaryOn("add", o, s)
Sub == \E o \in Objs, s \in Objs : BinaryOn("sub", o, s)
Mul == \E o \in Objs, s \in Objs : BinaryOn("mul", o, s)
Div == \E o \in Objs, s \in Objs : BinaryOn("div", o, s)
MulScalar == \E o \in Objs, scalar \in Scalars : ScalarOn("mul", o, scalar)
DivScalar == \E o \in Objs, scalar \in Scalars : ScalarOn("div", o, scalar)

ArithNext ==
    \/ DefaultCtor
    \/ ArithFillCtor
    \/ ArithListCtor
    \/ ArithReserve
    \/ Dtor
    \/ Add
    \/ Sub
    \/ Mul
    \/ Div
    \/ MulScalar
    \/ DivScalar

ArithSpec == Init /\ [][ArithNext]_vars

\* ------------------------------------------------------------ scalar comparison
CompareOps == {"eq", "ne", "lt", "gt", "le", "ge"}

\* a comparison with the scalar on the left of the element
CompareSwapped(op, x, y) ==
    CASE op = "eq" -> y = x
      [] op = "ne" -> y # x
      [] op = "lt" -> y < x
      [] op = "gt" -> y > x
      [] op = "le" -> y <= x
      [] op = "ge" -> y >= x

\* mtxE == elem, mtxE != elem, mtxE < elem, mtxE > elem, mtxE <= elem, mtxE >= elem
Compare(op, x, y) ==
    CASE op = "eq" -> x = y
      [] op = "ne" -> x # y
      [] op = "lt" -> x < y
      [] op = "gt" -> x > y
      [] op = "le" -> x <= y
      [] op = "ge" -> x >= y

\* a boolean element whose value is indeterminate
IndetBool == [live |-> TRUE, det |-> FALSE, val |-> FALSE]

\* the cell a comparison of an element read with the scalar gives
ElemCompare(op, s, elem) ==
    IF s.live /\ s.det THEN LiveSlot(Compare(op, s.val, elem)) ELSE IndetBool

\* std::transform(mtx.cbegin(), mtx.cend(), result.begin(),
\*                [elem](const _ElemT& mtxE) { return mtxE op elem; })
TransformCompare(w, op, o, elem) ==
    LET x == w.m[o]
        r == w.m["result"]
        n == x.size
        cell(i) == ElemCompare(op, ReadSlot(w.heap, x.data, i), elem)
        faults == ReadFaults(w.heap, x.data, n)
                  \cup (IF \E i \in 1..n : ~InBuffer(w.heap, r.data, i)
                        THEN {"write_past_end"} ELSE {})
    IN [w EXCEPT !.heap = IF r.data = NULL THEN @
                          ELSE [@ EXCEPT ![r.data] =
                                  [i \in 1..Len(@) |-> IF i <= n THEN cell(i) ELSE @[i]]],
                 !.flags = @ \cup faults]

\* operator==, !=, <, >, <=, >= (const matrix<_ElemT>& mtx, const _ElemT& elem)
CompareW(w, op, o, elem) ==
    Returned(TransformCompare(SizeCtorW(WithResult(w), "result", w.m[o].rows, w.m[o].columns,
                                        LiveSlot(FALSE)), op, o, elem))

\* the name last.op gives a comparison with a scalar
ScalarName(op) ==
    CASE op = "eq" -> "eq_scalar"
      [] op = "ne" -> "ne_scalar"
      [] op = "lt" -> "lt_scalar"
      [] op = "gt" -> "gt_scalar"
      [] op = "le" -> "le_scalar"
      [] op = "ge" -> "ge_scalar"

CompareOn(op, o, elem) ==
    /\ leaked < MaxLeak
    /\ m[o].alive
    /\ LET res == CompareW(World, op, o, elem)
       IN Commit(res.w, ArithStep(ScalarName(op), res))

EqScalar == \E o \in Objs, elem \in Scalars : CompareOn("eq", o, elem)
NeScalar == \E o \in Objs, elem \in Scalars : CompareOn("ne", o, elem)
LtScalar == \E o \in Objs, elem \in Scalars : CompareOn("lt", o, elem)
GtScalar == \E o \in Objs, elem \in Scalars : CompareOn("gt", o, elem)
LeScalar == \E o \in Objs, elem \in Scalars : CompareOn("le", o, elem)
GeScalar == \E o \in Objs, elem \in Scalars : CompareOn("ge", o, elem)

CompareNext ==
    \/ DefaultCtor
    \/ ArithFillCtor
    \/ ArithListCtor
    \/ ArithReserve
    \/ Dtor
    \/ EqScalar
    \/ NeScalar
    \/ LtScalar
    \/ GtScalar
    \/ LeScalar
    \/ GeScalar

CompareSpec == Init /\ [][CompareNext]_vars

\* ------------------------------------------------------------ sanity
TypeOK ==
    /\ \A o \in Objs : m[o].data \in {NULL} \cup Allocated(heap)
    /\ leaked \in 0..(MaxLeak + 2)

\* ------------------------------------------------------------ observations
Fields(x) == <<x.rows, x.columns, x.size, x.capacity>>

Contents(h, x) == IF x.data = NULL THEN <<>> ELSE h[x.data]

DefaultState == [NoMatrix EXCEPT !.alive = TRUE]

Live(h, x, i) == x.data # NULL /\ i <= Len(h[x.data]) /\ h[x.data][i].live

NoAllocation == last.flags \cap {"allocated", "released"} = {}

\* ------------------------------------------------------------ claims

\* C1: in every reachable state a matrix has size = rows * columns when both
\* are nonzero and size = max(rows, columns) when either is zero.
DimensionInvariant ==
    \A o \in Objs : m[o].alive => m[o].size = SizeOf(m[o].rows, m[o].columns)

\* C2: in every reachable state capacity >= size, every slot of [0, size) holds
\* a live element and every slot of [size, capacity) is allocated and raw.
StorageInvariant ==
    \A o \in Objs :
        m[o].alive =>
            /\ m[o].capacity >= m[o].size
            /\ \A i \in 1..m[o].size : Live(heap, m[o], i)
            /\ \A i \in (m[o].size + 1)..m[o].capacity :
                  /\ m[o].data # NULL
                  /\ i <= Len(heap[m[o].data])
                  /\ ~heap[m[o].data][i].live

\* C3: a move construction gives the new matrix the rows, columns, size,
\* capacity and buffer of the source and leaves the source in the default
\* state: rows, columns, size and capacity 0 and a null buffer.
MoveResetsSource ==
    [][\A o \in Objs, s \in Objs :
          (last'.op = "move" /\ MoveCtorOn(o, s)) =>
              /\ Fields(m'[o]) = Fields(m[s])
              /\ Contents(heap', m'[o]) = Contents(heap, m[s])
              /\ m'[s] = DefaultState
              /\ NoAllocation']_vars

\* C4: once every matrix has been destroyed no allocated buffer remains
\* unreleased.
NoBufferLeft ==
    (\A o \in Objs : ~m[o].alive) => (Allocated(heap) = {} /\ leaked = 0)

\* C5: no operation destructs a slot that holds no live element, lets a live
\* element go without destructing it, or releases a buffer twice.
ExactlyOnceDestruction ==
    last.flags \cap {"destroy_not_live", "lost_live", "released_twice"} = {}

\* C6: reserve(new_rows, new_cols) with new_capacity <= capacity sets rows and
\* columns to the new values and leaves the buffer, capacity, size and every
\* stored element unchanged.
ReserveWithoutGrowth ==
    [][\A o \in Objs, d \in ReserveDims :
          (last'.op = "reserve" /\ SizeOf(d[1], d[2]) <= m[o].capacity /\ ReserveOn(o, d)) =>
              /\ m'[o].rows = d[1]
              /\ m'[o].columns = d[2]
              /\ m'[o].capacity = m[o].capacity
              /\ m'[o].size = m[o].size
              /\ m'[o].data = m[o].data
              /\ heap' = heap
              /\ NoAllocation']_vars

\* C7: reserve(new_rows, new_cols) with new_capacity > capacity on a matrix of
\* N live elements sets capacity, rows and columns to the new values and leaves
\* the N elements in slots [0, N) of the new buffer in their prior order.
ReserveWithGrowth ==
    [][\A o \in Objs, d \in ReserveDims :
          (last'.op = "reserve" /\ SizeOf(d[1], d[2]) > m[o].capacity /\ ReserveOn(o, d)) =>
              /\ m'[o].capacity = SizeOf(d[1], d[2])
              /\ m'[o].rows = d[1]
              /\ m'[o].columns = d[2]
              /\ m'[o].size = m[o].size
              /\ Len(Contents(heap', m'[o])) = SizeOf(d[1], d[2])
              /\ \A i \in 1..m[o].size :
                    Live(heap, m[o], i) => heap'[m'[o].data][i] = heap[m[o].data][i]]_vars

\* C7 witness: a reserve has just grown a matrix of two elements, a
\* determinate one before an indeterminate one, and both are in place.
ReserveWithGrowthWitness ==
    /\ last.op = "reserve"
    /\ "allocated" \in last.flags
    /\ \E o \in Objs :
          /\ m[o].alive
          /\ m[o].size = 2
          /\ m[o].capacity > m[o].size
          /\ heap[m[o].data][1] = LiveSlot(1)
          /\ heap[m[o].data][2] = IndetSlot

\* C8: a.swap(b) gives a the rows, columns, size, capacity and buffer b had and
\* b those a had, and allocates and releases no buffer.
SwapExchanges ==
    [][\A o \in Objs, q \in Objs, neq1 \in BOOLEAN, neq2 \in BOOLEAN :
          (last'.op = "swap" /\ SwapOn(o, q, neq1, neq2)) =>
              /\ Fields(m'[o]) = Fields(m[q])
              /\ Fields(m'[q]) = Fields(m[o])
              /\ Contents(heap', m'[o]) = Contents(heap, m[q])
              /\ Contents(heap', m'[q]) = Contents(heap, m[o])
              /\ NoAllocation'
              /\ leaked' = leaked]_vars

\* C9: clear() leaves size, rows and columns 0 and the capacity and the buffer
\* allocation as they were.
ClearPreservesCapacity ==
    [][\A o \in Objs :
          (last'.op = "clear" /\ ClearOn(o)) =>
              /\ m'[o].size = 0
              /\ m'[o].rows = 0
              /\ m'[o].columns = 0
              /\ m'[o].capacity = m[o].capacity
              /\ m'[o].data = m[o].data
              /\ NoAllocation']_vars

\* C10: a copy-constructed matrix has the rows, columns, size and element
\* values of the source, capacity equal to that size and a buffer of its own,
\* the source is left as it was, and a write through at() to one of the size
\* elements of a matrix changes no element of another.
CopyIndependence ==
    [][/\ \A o \in Objs, s \in Objs :
             (last'.op = "copy" /\ CopyCtorOn(o, s)) =>
                 /\ m'[o].rows = m[s].rows
                 /\ m'[o].columns = m[s].columns
                 /\ m'[o].size = m[s].size
                 /\ m'[o].capacity = m[s].size
                 /\ m[s].size > 0 => (m'[o].data # NULL /\ m'[o].data # m'[s].data)
                 /\ Len(Contents(heap', m'[o])) = m[s].size
                 /\ \A i \in 1..m[s].size :
                       Live(heap, m[s], i) => heap'[m'[o].data][i] = heap[m[s].data][i]
                 /\ m'[s] = m[s]
                 /\ Contents(heap', m'[s]) = Contents(heap, m[s])
       /\ \A o \in Objs, d \in AtArgs, v \in Values, next \in Neighbours(heap) :
             (/\ last'.op = "at"
              /\ AtIndex(m[o], d[1], d[2]) <= m[o].size
              /\ next \in AtNextTo(heap, m[o], d[1], d[2])
              /\ AtStoreOn(o, d, v, next)) =>
                 \A q \in Objs \ {o} :
                     /\ m'[q] = m[q]
                     /\ Contents(heap', m'[q]) = Contents(heap, m[q])
                     /\ m[q].data # NULL => m[q].data # m[o].data]_vars

\* C10 witness: a copy has just been made of a matrix that has headroom; the
\* copy has the same live elements, one of them determinate, and no headroom.
CopyIndependenceWitness ==
    /\ last.op = "copy"
    /\ \E o \in Objs, s \in Objs :
          /\ o # s
          /\ m[o].alive /\ m[s].alive
          /\ m[s].capacity > m[s].size
          /\ m[o].size = m[s].size
          /\ m[o].capacity = m[o].size
          /\ m[o].size = 2
          /\ heap[m[s].data][1] = LiveSlot(1)
          /\ \A i \in 1..m[o].size : heap[m[o].data][i] = heap[m[s].data][i]

\* C11: a copy assignment a = b between two distinct matrices leaves a with
\* the rows, columns, size, capacity = size and element values a copy
\* constructed from b would have; a move assignment a = move(b) leaves a with
\* what b held and b with size 0 and a null buffer; both also when a and b
\* held equal contents.
AssignmentMirrorsConstruction ==
    [][/\ \A o \in Objs : \A s \in Objs \ {o}, neq \in BOOLEAN :
             (last'.op = "copy_assign" /\ CopyAssignOn(o, s, neq)) =>
                 /\ m'[o].rows = m[s].rows
                 /\ m'[o].columns = m[s].columns
                 /\ m'[o].size = m[s].size
                 /\ m'[o].capacity = m[s].size
                 /\ \A i \in 1..m[s].size :
                       Live(heap, m[s], i) =>
                           /\ Live(heap', m'[o], i)
                           /\ heap'[m'[o].data][i] = heap[m[s].data][i]
       /\ \A o \in Objs : \A s \in Objs \ {o}, neq \in BOOLEAN :
             (last'.op = "move_assign" /\ MoveAssignOn(o, s, neq)) =>
                 /\ Fields(m'[o]) = Fields(m[s])
                 /\ Contents(heap', m'[o]) = Contents(heap, m[s])
                 /\ m'[s].size = 0
                 /\ m'[s].data = NULL]_vars

\* C12: copy-assigning or move-assigning a matrix to itself leaves its rows,
\* columns, size, capacity, buffer and every element as they were, and
\* allocates and releases nothing.
SelfAssignmentNoOp ==
    [][\A o \in Objs, neq \in BOOLEAN :
          (\/ last'.op = "copy_assign" /\ CopyAssignOn(o, o, neq)
           \/ last'.op = "move_assign" /\ MoveAssignOn(o, o, neq)) =>
              /\ m' = m
              /\ heap' = heap
              /\ leaked' = leaked
              /\ NoAllocation']_vars

\* The first row of a list whose length differs from that of row 1; 0 if none.
FirstMismatch(list) ==
    IF \A k \in 1..Len(list) : Len(list[k]) = Len(list[1]) THEN 0
    ELSE CHOOSE k \in 1..Len(list) :
            /\ Len(list[k]) # Len(list[1])
            /\ \A i \in 1..(k - 1) : Len(list[i]) = Len(list[1])

\* C13: construction or assignment from a nested list of R >= 1 rows of one
\* length C >= 1 gives rows = R, columns = C, size = R * C, and buffer slot
\* r * C + c holds element c of row r; with R * C placements in all, every slot
\* of [0, size) is then written once and none outside it.
NestedRowMajor ==
    [][\A o \in Objs, list \in NestedLists, next \in Neighbours(heap) :
          (/\ last'.op \in {"list", "list_assign"}
           /\ FirstMismatch(list) = 0
           /\ Len(list[1]) >= 1
           /\ next \in NextTo(heap, list)
           /\ InitListCtorOn(o, list, next) \/ InitListAssignOn(o, list, next)) =>
              LET R == Len(list)
                  C == Len(list[1])
              IN /\ m'[o].rows = R
                 /\ m'[o].columns = C
                 /\ m'[o].size = R * C
                 /\ "write_past_end" \notin last'.flags
                 /\ \A r \in 0..(R - 1), c \in 0..(C - 1) :
                       /\ Live(heap', m'[o], r * C + c + 1)
                       /\ heap'[m'[o].data][r * C + c + 1] = LiveSlot(list[r + 1][c + 1])]_vars

\* The values of the rows of a list from row k on.
ValuesFrom(list, k) == UNION {{list[r][j] : j \in 1..Len(list[r])} : r \in k..Len(list)}

\* C14: construction from a nested list with a row whose length differs from
\* that of the first row fails with the dimension-mismatch error
\* (std::invalid_argument) at the first such row, constructs no matrix, and
\* places no value of that row or of a later row in any buffer.
NestedMismatchFails ==
    [][\A o \in Objs, list \in NestedLists, next \in Neighbours(heap) :
          (/\ last'.op = "list"
           /\ FirstMismatch(list) # 0
           /\ next \in NextTo(heap, list)
           /\ InitListCtorOn(o, list, next)) =>
              /\ last'.thrown = "invalid_argument"
              /\ ~m'[o].alive
              /\ LET res == InitListCtorW(World, o, list, next)
                     late == ValuesFrom(list, FirstMismatch(list))
                 IN \A b \in BufIds : \A i \in 1..Len(res.w.heap[b]) :
                        (res.w.heap[b][i].live /\ res.w.heap[b][i].val \in late) =>
                            (i <= Len(heap[b]) /\ heap[b][i] = res.w.heap[b][i])]_vars

\* C14 witness: a construction from a nested list has just failed with
\* std::invalid_argument after it had allocated its buffer, which no matrix
\* owns.
NestedMismatchWitness ==
    /\ last.op = "list"
    /\ last.thrown = "invalid_argument"
    /\ "allocated" \in last.flags
    /\ leaked > 0
    /\ \E o \in Objs : ~m[o].alive

\* C15: at(row, column), which the call operator forwards to, fails with
\* std::out_of_range exactly when row >= rows or column >= columns, and then
\* changes nothing; otherwise it refers to buffer slot row * columns + column:
\* a store through it to an element changes that slot and no other.
CheckedAccess ==
    [][\A o \in Objs, d \in AtArgs, v \in Values, next \in Neighbours(heap) :
          (/\ last'.op = "at"
           /\ next \in AtNextTo(heap, m[o], d[1], d[2])
           /\ AtStoreOn(o, d, v, next)) =>
              LET slot == d[1] * m[o].columns + d[2] + 1
              IN /\ last'.thrown \in {"none", "out_of_range"}
                 /\ last'.thrown = "out_of_range" <=>
                        (d[1] >= m[o].rows \/ d[2] >= m[o].columns)
                 /\ last'.thrown = "out_of_range" => (m' = m /\ heap' = heap)
                 /\ (last'.thrown = "none" /\ Live(heap, m[o], slot)) =>
                        /\ m' = m
                        /\ heap' = [heap EXCEPT ![m[o].data][slot] = LiveSlot(v)]]_vars

\* C15 witness: at() has just failed on the only matrix there is, which is
\* not empty.
CheckedAccessWitness ==
    /\ last.op = "at"
    /\ last.thrown = "out_of_range"
    /\ \E o \in Objs :
          /\ m[o].alive /\ m[o].size > 0 /\ m[o].rows >= 1 /\ m[o].columns >= 1
          /\ \A q \in Objs \ {o} : ~m[q].alive

BinaryOps == {"add", "sub", "mul", "div"}

ReadFaultFlags == {"read_past_end", "read_not_live", "write_past_end"}

\* C16: add, sub, mul and div between two matrices whose (rows, columns) differ
\* throw std::invalid_argument for the mismatch, return no matrix and leave
\* both operands and the free store as they were.
DimensionMismatchFails ==
    [][\A op \in BinaryOps, o \in Objs, s \in Objs :
          (/\ last'.op = op
           /\ <<m[o].rows, m[o].columns>> # <<m[s].rows, m[s].columns>>
           /\ BinaryOn(op, o, s)) =>
              /\ last'.thrown = "invalid_argument"
              /\ last'.what = "dimensions do not match"
              /\ ~last'.result.alive
              /\ last'.elems = <<>>
              /\ m' = m
              /\ heap' = heap
              /\ leaked' = leaked
              /\ NoAllocation']_vars

\* C16 witness: an operation has just failed between two matrices of the same
\* size and different dimensions.
DimensionMismatchWitness ==
    /\ last.op \in BinaryOps
    /\ last.thrown = "invalid_argument"
    /\ m["a"].alive /\ m["b"].alive
    /\ m["a"].size = m["b"].size
    /\ m["a"].size = MaxCells
    /\ m["a"].rows # m["b"].rows

\* C17: for two matrices of equal dimensions add, sub and mul return a matrix
\* of the same rows and columns in a buffer of its own, whose element i is
\* a[i] + b[i], a[i] - b[i], a[i] * b[i] wherever both operands have an
\* element i; they read no storage that holds no element, and change neither
\* operand.
ElementwiseCorrect ==
    [][\A op \in {"add", "sub", "mul"}, o \in Objs, s \in Objs :
          (/\ last'.op = op
           /\ <<m[o].rows, m[o].columns>> = <<m[s].rows, m[s].columns>>
           /\ BinaryOn(op, o, s)) =>
              /\ last'.thrown = "none"
              /\ last'.result.alive
              /\ last'.result.rows = m[o].rows
              /\ last'.result.columns = m[o].columns
              /\ last'.result.data # NULL => last'.result.data \notin {m[o].data, m[s].data}
              /\ last'.flags \cap ReadFaultFlags = {}
              /\ \A i \in 1..Min(m[o].size, m[s].size) :
                    LET x == ReadSlot(heap, m[o].data, i)
                        y == ReadSlot(heap, m[s].data, i)
                    IN (x.live /\ x.det /\ y.live /\ y.det) =>
                          /\ i <= Len(last'.elems)
                          /\ last'.elems[i] =
                                LiveSlot(CASE op = "add" -> x.val + y.val
                                           [] op = "sub" -> x.val - y.val
                                           [] op = "mul" -> x.val * y.val)
              /\ m' = m
              /\ heap' = heap]_vars

\* C18: mul(scalar) and div(scalar) on a matrix of size 0 throw for the empty
\* operand, whatever the scalar; div(scalar) on a matrix that is not empty
\* throws for the zero scalar; neither returns a matrix or changes anything
\* then, and otherwise they do not throw.
ScalarErrors ==
    [][\A op \in {"mul", "div"}, o \in Objs, scalar \in Scalars :
          (/\ last'.op = op \o "_scalar"
           /\ ScalarOn(op, o, scalar)) =>
              /\ m[o].size = 0 =>
                    /\ last'.thrown = "invalid_argument"
                    /\ last'.what = (IF op = "mul"
                                     THEN "scalar multiplication on empty matrix"
                                     ELSE "scalar division on empty matrix")
              /\ (m[o].size # 0 /\ op = "div" /\ scalar = 0) =>
                    /\ last'.thrown = "invalid_argument"
                    /\ last'.what = "scalar is zero"
              /\ (m[o].size # 0 /\ ~(op = "div" /\ scalar = 0)) =>
                    /\ last'.thrown = "none"
                    /\ last'.result.alive
              /\ last'.thrown # "none" =>
                    /\ ~last'.result.alive
                    /\ last'.elems = <<>>
                    /\ m' = m
                    /\ heap' = heap
                    /\ leaked' = leaked
                    /\ NoAllocation']_vars

\* C18 witness: a division by a scalar has just failed for the zero scalar on
\* the only matrix there is, which is not empty.
ScalarErrorsWitness ==
    /\ last.op = "div_scalar"
    /\ last.thrown = "invalid_argument"
    /\ last.what = "scalar is zero"
    /\ \E o \in Objs :
          /\ m[o].alive /\ m[o].size > 0
          /\ \A q \in Objs \ {o} : ~m[q].alive

\* q is x / y truncated toward zero: the remainder is smaller than the divisor
\* and has the sign of the dividend
IsTruncated(q, x, y) ==
    LET r == x - q * y
    IN /\ (IF r < 0 THEN -r ELSE r) < (IF y < 0 THEN -y ELSE y)
       /\ r = 0 \/ ((r < 0) = (x < 0))

\* C19: div between matrices of equal dimensions whose divisor elements are
\* not zero, and div by a scalar that is not zero on a matrix that is not
\* empty, return a matrix of the same dimensions whose every element is the
\* quotient truncated toward zero.
TruncatingDivision ==
    [][/\ \A o \in Objs, s \in Objs :
            (/\ last'.op = "div"
             /\ <<m[o].rows, m[o].columns>> = <<m[s].rows, m[s].columns>>
             /\ \A i \in 1..m[o].size :
                   LET x == ReadSlot(heap, m[o].data, i)
                       y == ReadSlot(heap, m[s].data, i)
                   IN x.live /\ x.det /\ y.live /\ y.det /\ y.val # 0
             /\ BinaryOn("div", o, s)) =>
                /\ last'.thrown = "none"
                /\ <<last'.result.rows, last'.result.columns>> = <<m[o].rows, m[o].columns>>
                /\ \A i \in 1..m[o].size :
                      /\ i <= Len(last'.elems)
                      /\ last'.elems[i].live /\ last'.elems[i].det
                      /\ IsTruncated(last'.elems[i].val, heap[m[o].data][i].val,
                                     heap[m[s].data][i].val)
       /\ \A o \in Objs, scalar \in Scalars \ {0} :
            (/\ last'.op = "div_scalar"
             /\ m[o].size # 0
             /\ \A i \in 1..m[o].size :
                   LET x == ReadSlot(heap, m[o].data, i) IN x.live /\ x.det
             /\ ScalarOn("div", o, scalar)) =>
                /\ last'.thrown = "none"
                /\ <<last'.result.rows, last'.result.columns>> = <<m[o].rows, m[o].columns>>
                /\ \A i \in 1..m[o].size :
                      /\ i <= Len(last'.elems)
                      /\ last'.elems[i].live /\ last'.elems[i].det
                      /\ IsTruncated(last'.elems[i].val, heap[m[o].data][i].val, scalar)]_vars

\* C19 witness: a division of the row (-7, 2) by a row of twos has just given
\* (-3, 1).
TruncatingDivisionWitness ==
    /\ last.op = "div"
    /\ last.thrown = "none"
    /\ last.elems = <<LiveSlot(-3), LiveSlot(1)>>
    /\ \E o \in Objs : m[o].alive /\ Contents(heap, m[o]) = <<LiveSlot(-7), LiveSlot(2)>>

\* C20: lhs == rhs is false when the (rows, columns) of the two differ;
\* otherwise it is true exactly when the elements of every index at which
\* both have an element are equal; lhs != rhs is its negation.
EqualityCorrect ==
    \A l \in Objs, r \in Objs :
        (m[l].alive /\ m[r].alive) =>
            LET eq == EqOutcomes(heap, m[l], m[r])
                both == {i \in 1..Max(m[l].size, m[r].size) :
                            Live(heap, m[l], i) /\ Live(heap, m[r], i)}
                x(i) == heap[m[l].data][i]
                y(i) == heap[m[r].data][i]
            IN /\ <<m[l].rows, m[l].columns>> # <<m[r].rows, m[r].columns>> => eq = {FALSE}
               /\ (/\ <<m[l].rows, m[l].columns>> = <<m[r].rows, m[r].columns>>
                   /\ \A i \in both : x(i).det /\ y(i).det) =>
                      eq = {\A i \in both : x(i).val = y(i).val /\ x(i).val # NaN}
               /\ NeqOutcomes(World, l, r) = {~e : e \in eq}

\* the values of the elements a matrix holds in its first size slots, in
\* row-major order
LiveValues(h, x) ==
    LET inside == [i \in 1..x.size |-> ReadSlot(h, x.data, i)]
        isLive(s) == s.live
        kept == SelectSeq(inside, isLive)
    IN [i \in 1..Len(kept) |-> kept[i].val]

AllDeterminate(h, x) ==
    \A i \in 1..x.size : LET s == ReadSlot(h, x.data, i) IN s.live => s.det

\* the sequence u comes before the sequence v in the lexicographic order
ElemLess(x, y) == x # NaN /\ y # NaN /\ x < y

LexLess(u, v) ==
    \E k \in 1..(Len(v)) :
        /\ k <= Len(u) + 1
        /\ \A i \in 1..(k - 1) : ~ElemLess(u[i], v[i]) /\ ~ElemLess(v[i], u[i])
        /\ k = Len(u) + 1 \/ ElemLess(u[k], v[k])

\* C21: lhs < rhs is the lexicographic comparison of the sequences of the
\* elements the two matrices hold, whatever their dimensions; lhs > rhs is
\* rhs < lhs, lhs <= rhs is not (rhs < lhs), lhs >= rhs is not (lhs < rhs);
\* two matrices of equal dimensions and equal contents are not < each other.
LexicographicOrdering ==
    \A l \in Objs, r \in Objs :
        (/\ m[l].alive /\ m[r].alive
         /\ AllDeterminate(heap, m[l]) /\ AllDeterminate(heap, m[r])) =>
            LET lt == LtOutcomes(heap, m[l], m[r])
                tl == LtOutcomes(heap, m[r], m[l])
            IN /\ lt = {LexLess(LiveValues(heap, m[l]), LiveValues(heap, m[r]))}
               /\ GtOutcomes(heap, m[l], m[r]) = tl
               /\ LeOutcomes(heap, m[l], m[r]) = {~e : e \in tl}
               /\ GeOutcomes(heap, m[l], m[r]) = {~e : e \in lt}
               /\ (/\ <<m[l].rows, m[l].columns>> = <<m[r].rows, m[r].columns>>
                   /\ Contents(heap, m[l]) = Contents(heap, m[r])) => lt = {FALSE}

\* C22: each of m == s, m != s, m < s, m > s, m <= s, m >= s returns a matrix
\* of booleans in a buffer of its own, with the rows and columns of m, whose
\* cell i is the comparison of the element i of m with s; m is not changed.
ScalarComparisonBroadcast ==
    [][\A op \in CompareOps, o \in Objs, elem \in Scalars :
          (/\ last'.op = ScalarName(op)
           /\ CompareOn(op, o, elem)) =>
              /\ last'.thrown = "none"
              /\ last'.result.alive
              /\ last'.result.rows = m[o].rows
              /\ last'.result.columns = m[o].columns
              /\ last'.result.data # NULL => last'.result.data # m[o].data
              /\ \A i \in 1..m[o].size :
                    LET x == ReadSlot(heap, m[o].data, i)
                    IN (x.live /\ x.det) =>
                          /\ i <= Len(last'.elems)
                          /\ last'.elems[i] =
                                LiveSlot(CASE op = "eq" -> x.val = elem
                                           [] op = "ne" -> x.val # elem
                                           [] op = "lt" -> x.val < elem
                                           [] op = "gt" -> x.val > elem
                                           [] op = "le" -> x.val <= elem
                                           [] op = "ge" -> x.val >= elem)
              /\ m' = m
              /\ heap' = heap
              /\ leaked' = leaked]_vars

\* C22 witness: the row (-7, 2) has just been compared for equality with a
\* scalar and the result is (false, true).
ScalarComparisonWitness ==
    /\ last.op = "eq_scalar"
    /\ last.thrown = "none"
    /\ last.result.rows = 1 /\ last.result.columns = 2
    /\ last.elems = <<LiveSlot(FALSE), LiveSlot(TRUE)>>
    /\ \E o \in Objs :
          /\ m[o].alive /\ Contents(heap, m[o]) = <<LiveSlot(-7), LiveSlot(2)>>
          /\ \A q \in Objs \ {o} : ~m[q].alive

\* C23: in every reachable state, whenever at(row, column) passes its range
\* check, the slot row * columns + column it refers to is below size and
\* holds an element.
CheckedAccessLive ==
    \A o \in Objs :
        m[o].alive =>
            \A r \in 0..MaxCells, c \in 0..MaxCells :
                _M_range_check(m[o], r, c) = "none" =>
                    /\ AtIndex(m[o], r, c) <= m[o].size
                    /\ Live(heap, m[o], AtIndex(m[o], r, c))

\* C24, as stated: for two matrices of any shapes, a <= b and b <= a imply
\* a == b.
OrderingImpliesEquality ==
    \A a \in Objs, b \in Objs :
        (/\ m[a].alive /\ m[b].alive
         /\ LeOutcomes(heap, m[a], m[b]) = {TRUE}
         /\ LeOutcomes(heap, m[b], m[a]) = {TRUE}) =>
            EqOutcomes(heap, m[a], m[b]) = {TRUE}

\* no element of the matrix is a NaN: its elements are totally ordered by <
Ordered(h, x) == \A i \in 1..x.size : ReadSlot(h, x.data, i).val # NaN

\* C24, amended: for two matrices of equal (rows, columns) whose elements are
\* totally ordered, a <= b and b <= a imply a == b; between matrices of
\* different dimensions the ordering, which compares the element sequences
\* alone, does not decide equality.
OrderingImpliesEqualityOfEqualDimensions ==
    \A a \in Objs, b \in Objs :
        (/\ m[a].alive /\ m[b].alive
         /\ <<m[a].rows, m[a].columns>> = <<m[b].rows, m[b].columns>>
         /\ Ordered(heap, m[a]) /\ Ordered(heap, m[b])
         /\ LeOutcomes(heap, m[a], m[b]) = {TRUE}
         /\ LeOutcomes(heap, m[b], m[a]) = {TRUE}) =>
            EqOutcomes(heap, m[a], m[b]) = {TRUE}

\* C24 witness: two matrices of the same dimensions, each of MaxCells
\* elements in a buffer of its own, are <= each other.
OrderingImpliesEqualityWitness ==
    /\ m["a"].alive /\ m["b"].alive
    /\ <<m["a"].rows, m["a"].columns>> = <<m["b"].rows, m["b"].columns>>
    /\ m["a"].size = MaxCells /\ m["b"].size = MaxCells
    /\ m["a"].data # m["b"].data
    /\ LeOutcomes(heap, m["a"], m["b"]) = {TRUE}
    /\ LeOutcomes(heap, m["b"], m["a"]) = {TRUE}

====
